---- MODULE Spec2Model ----
(***************************************************************************)
(* Model of the chunking and orchestration code of md-translator:          *)
(*   - translate_md.py: MarkdownTranslator.split_markdown,                 *)
(*     _split_large_chunk, translate_chunk, translate_file;                *)
(*   - extract_videosub.py: generate_notes, with llm_client.py's           *)
(*     LLMClient.generate_completion as the completion service.            *)
(* Text is a sequence of one-character strings; a run of the model is one  *)
(* run of one of the two scripts (prog).                                   *)
(***************************************************************************)
EXTENDS Integers, Sequences, FiniteSets, TLC

VARIABLES
    prog,                    \* which script this run executes
    pc,                      \* position of the running function
    content,                 \* translate_file: the text read from input_file
    max_chunk_size,          \* MarkdownTranslator.max_chunk_size
    service,                 \* behaviour of the completion service in this run
    chunks,                  \* translate_file: split_markdown(content)
    pbar,                    \* translate_file: sorted(chunks, key=position)
    idx,                     \* translate_file: chunks of pbar already processed
    translated_chunks,       \* translate_file: translated_chunks
    total_prompt_tokens,     \* translate_file: total_prompt_tokens
    total_completion_tokens, \* translate_file: total_completion_tokens
    calls,                   \* the translate_chunk calls made, in order
    final_content,           \* translate_file: the text written to output_file
    subtitle,                \* generate_notes: the lines of the subtitle file
    segments,                \* generate_notes: segments (the transcript windows)
    seg_i,                   \* generate_notes: windows already processed
    notes_sections,          \* generate_notes: notes_sections
    total_stats,             \* generate_notes: total_stats
    completions,             \* the generate_completion results, in call order
    notes,                   \* generate_notes: the value returned
    notes_file               \* extract_subtitle: the notes file

tvars == <<content, max_chunk_size, service, chunks, pbar, idx, translated_chunks,
           total_prompt_tokens, total_completion_tokens, calls, final_content>>

nvars == <<subtitle, segments, seg_i, notes_sections, total_stats, completions, notes,
           notes_file>>

vars == <<prog, pc, tvars, nvars>>

-----------------------------------------------------------------------------
(* Bounds of the model *)

MaxLines == 4        \* lines of a generated document
MaxSmallChunk == 2   \* generated values of max_chunk_size are 1..MaxSmallChunk
MaxEntries == 3      \* entries of a generated transcript

-----------------------------------------------------------------------------
(* Text helpers: Python's str.split, str.join and len *)

NL == "\n"

\* The token counts (completion.usage) a successful remote call reports.
UsageCounts ==
    {[prompt_tokens |-> 1, completion_tokens |-> 2],
     [prompt_tokens |-> 3, completion_tokens |-> 1]}

Whitespace == {" ", "\t"}

RECURSIVE SplitFrom(_, _, _, _)
SplitFrom(s, sep, i, cur) ==
    IF i > Len(s) THEN <<cur>>
    ELSE IF i + Len(sep) - 1 <= Len(s) /\ SubSeq(s, i, i + Len(sep) - 1) = sep
         THEN <<cur>> \o SplitFrom(s, sep, i + Len(sep), <<>>)
         ELSE SplitFrom(s, sep, i + 1, Append(cur, s[i]))

\* s.split(sep): the pieces between the left-to-right, non-overlapping
\* occurrences of sep; always at least one piece ("" gives [""]).
str_split(s, sep) == SplitFrom(s, sep, 1, <<>>)

RECURSIVE str_join(_, _)
\* sep.join(parts)
str_join(parts, sep) ==
    IF Len(parts) = 0 THEN <<>>
    ELSE IF Len(parts) = 1 THEN parts[1]
    ELSE parts[1] \o sep \o str_join(Tail(parts), sep)

RECURSIVE Flatten(_)
Flatten(ss) == IF ss = <<>> THEN <<>> ELSE Head(ss) \o Flatten(Tail(ss))

Range(f) == {f[k] : k \in DOMAIN f}

-----------------------------------------------------------------------------
(* MarkdownTranslator.split_markdown *)

RECURSIVE LeadingHashes(_)
LeadingHashes(line) ==
    IF line # <<>> /\ Head(line) = "#" THEN 1 + LeadingHashes(Tail(line)) ELSE 0

\* header_match with the pattern '^(#)\s+(.+)$': only one '#' is a heading.
header_match_H1Only(line) ==
    LeadingHashes(line) = 1 /\ Len(line) >= 3 /\ line[2] \in Whitespace

\* re.match(r'^(#{1,3})\s+(.+)$', line): 1 to 3 '#', then whitespace, then at
\* least one more character (\s+ gives back all but one character to .+).
header_match(line) ==
    LET h == LeadingHashes(line) IN
    h >= 1 /\ h <= 3 /\ Len(line) >= h + 2 /\ line[h + 1] \in Whitespace

\* len(header_match.group(1))
header_level(line) == LeadingHashes(line)

\* One iteration of `for i, line in enumerate(lines)`; i counts from 0.
\* current_chunk is the list of lines of the open chunk; level 0 is None.
ScanLine(st, i, line) ==
    IF header_match(line)
    THEN [chunks |-> IF st.current_chunk # <<>>
                     THEN Append(st.chunks,
                                 [level |-> st.current_level,
                                  text |-> str_join(st.current_chunk, <<NL>>),
                                  pos |-> st.current_pos])
                     ELSE st.chunks,
          current_level |-> header_level(line),
          current_chunk |-> <<line>>,
          current_pos |-> i]
    ELSE [st EXCEPT !.current_chunk = Append(st.current_chunk, line)]

RECURSIVE ScanLines(_, _, _)
ScanLines(lines, i, st) ==
    IF i > Len(lines) THEN st
    ELSE ScanLines(lines, i + 1, ScanLine(st, i - 1, lines[i]))

\* heading_chunks without the append of the last open chunk after the loop.
heading_chunks_NoLastChunk(doc) ==
    ScanLines(str_split(doc, <<NL>>), 1,
              [chunks |-> <<>>, current_chunk |-> <<>>,
               current_level |-> 0, current_pos |-> 0]).chunks

\* The heading-delimited chunks (the list `chunks` before the size check).
heading_chunks(doc) ==
    LET st == ScanLines(str_split(doc, <<NL>>), 1,
                        [chunks |-> <<>>, current_chunk |-> <<>>,
                         current_level |-> 0, current_pos |-> 0])
    IN IF st.current_chunk # <<>>
       THEN Append(st.chunks, [level |-> st.current_level,
                               text |-> str_join(st.current_chunk, <<NL>>),
                               pos |-> st.current_pos])
       ELSE st.chunks

\* PackParagraph that opens the next sub-chunk empty when the paragraph alone
\* is longer than max: the oversized paragraph is lost.
PackParagraph_DropsOversized(st, paragraph, max) ==
    IF st.current_size + Len(paragraph) > max
    THEN [chunks |-> IF st.current_chunk # <<>>
                     THEN Append(st.chunks, str_join(st.current_chunk, <<NL, NL>>))
                     ELSE st.chunks,
          current_chunk |-> IF Len(paragraph) > max THEN <<>> ELSE <<paragraph>>,
          current_size |-> IF Len(paragraph) > max THEN 0 ELSE Len(paragraph)]
    ELSE [chunks |-> st.chunks,
          current_chunk |-> Append(st.current_chunk, paragraph),
          current_size |-> st.current_size + Len(paragraph)]

\* One iteration of `for paragraph in content.split('\n\n')`.
PackParagraph(st, paragraph, max) ==
    IF st.current_size + Len(paragraph) > max
    THEN [chunks |-> IF st.current_chunk # <<>>
                     THEN Append(st.chunks, str_join(st.current_chunk, <<NL, NL>>))
                     ELSE st.chunks,
          current_chunk |-> <<paragraph>>,
          current_size |-> Len(paragraph)]
    ELSE [chunks |-> st.chunks,
          current_chunk |-> Append(st.current_chunk, paragraph),
          current_size |-> st.current_size + Len(paragraph)]

RECURSIVE PackParagraphs(_, _, _)
PackParagraphs(paragraphs, st, max) ==
    IF paragraphs = <<>> THEN st
    ELSE PackParagraphs(Tail(paragraphs), PackParagraph(st, Head(paragraphs), max), max)

\* MarkdownTranslator._split_large_chunk
_split_large_chunk(text, max) ==
    LET st == PackParagraphs(str_split(text, <<NL, NL>>),
                             [chunks |-> <<>>, current_chunk |-> <<>>, current_size |-> 0],
                             max)
    IN IF st.current_chunk # <<>>
       THEN Append(st.chunks, str_join(st.current_chunk, <<NL, NL>>))
       ELSE st.chunks

\* sub_position that spreads the sub-chunks four positions apart.
sub_position_Wide(pos, sub_pos) == pos + 4 * sub_pos

\* The position given to sub-chunk number sub_pos (from 0) of a chunk at pos.
sub_position(pos, sub_pos) == pos + sub_pos

\* The final chunks one heading chunk contributes.
SizeCheck(c, max) ==
    IF Len(c.text) > max
    THEN LET sub_chunks == _split_large_chunk(c.text, max)
         IN [k \in 1..Len(sub_chunks) |->
                [level |-> c.level, text |-> sub_chunks[k],
                 pos |-> sub_position(c.pos, k - 1)]]
    ELSE <<c>>

RECURSIVE FinalChunks(_, _)
FinalChunks(cs, max) ==
    IF cs = <<>> THEN <<>>
    ELSE SizeCheck(Head(cs), max) \o FinalChunks(Tail(cs), max)

split_markdown(doc, max) == FinalChunks(heading_chunks(doc), max)

-----------------------------------------------------------------------------
(* MarkdownTranslator.translate_chunk and translate_file *)

RECURSIVE InsertByPos(_, _)
\* c goes after every element whose position is not larger (the sort is stable)
InsertByPos(sorted, c) ==
    IF sorted = <<>> THEN <<c>>
    ELSE IF Head(sorted).pos <= c.pos
         THEN <<Head(sorted)>> \o InsertByPos(Tail(sorted), c)
         ELSE <<c>> \o sorted

RECURSIVE sorted_by_pos(_)
\* sorted(chunks, key=lambda x: x[2])
sorted_by_pos(cs) ==
    IF cs = <<>> THEN <<>>
    ELSE InsertByPos(sorted_by_pos(SubSeq(cs, 1, Len(cs) - 1)), cs[Len(cs)])

\* What the remote model answers for a chunk when it answers: in this model
\* every letter "a" comes back as "z", the Markdown marks are kept.
Translation(text) == [k \in 1..Len(text) |-> IF text[k] = "a" THEN "z" ELSE text[k]]

\* The completions the service can give to one request: its text and usage,
\* or an exception (ok = FALSE). An "echo" service returns its input and
\* reports no tokens; an "llm" service translates or fails.
Completions(text) ==
    IF service = "echo"
    THEN {[ok |-> TRUE, text |-> text, prompt_tokens |-> 0, completion_tokens |-> 0]}
    ELSE {[ok |-> TRUE, text |-> Translation(text), prompt_tokens |-> u.prompt_tokens,
           completion_tokens |-> u.completion_tokens] : u \in UsageCounts}
         \cup {[ok |-> FALSE, text |-> <<>>, prompt_tokens |-> 0, completion_tokens |-> 0]}

\* translate_chunk whose except branch returns an empty text.
translate_chunk_EmptyOnFailure(text, completion) ==
    IF completion.ok
    THEN [text |-> completion.text, prompt_tokens |-> completion.prompt_tokens,
          completion_tokens |-> completion.completion_tokens]
    ELSE [text |-> <<>>, prompt_tokens |-> 0, completion_tokens |-> 0]

\* translate_chunk(content) given the service's completion:
\* (text, prompt_tokens, completion_tokens), or (content, 0, 0) on an exception.
translate_chunk(text, completion) ==
    IF completion.ok
    THEN [text |-> completion.text, prompt_tokens |-> completion.prompt_tokens,
          completion_tokens |-> completion.completion_tokens]
    ELSE [text |-> text, prompt_tokens |-> 0, completion_tokens |-> 0]

\* translate_file up to the loop: split the content and sort by position.
ReadAndSplit ==
    /\ prog = "translate_md" /\ pc = "translate_file"
    /\ chunks' = split_markdown(content, max_chunk_size)
    /\ pbar' = sorted_by_pos(chunks')
    /\ pc' = "loop"
    /\ UNCHANGED <<prog, content, max_chunk_size, service, idx, translated_chunks,
                   total_prompt_tokens, total_completion_tokens, calls, final_content, nvars>>

\* One iteration of `for level, chunk_content, pos in pbar`.
LoopBody(completion) ==
    LET chunk_content == pbar[idx + 1].text
        r == translate_chunk(chunk_content, completion)
    IN /\ translated_chunks' = Append(translated_chunks, r.text)
       /\ total_prompt_tokens' = total_prompt_tokens + r.prompt_tokens
       /\ total_completion_tokens' = total_completion_tokens + r.completion_tokens
       /\ calls' = Append(calls, [text |-> chunk_content, ok |-> completion.ok,
                                  prompt_tokens |-> completion.prompt_tokens,
                                  completion_tokens |-> completion.completion_tokens])
       /\ idx' = idx + 1
       /\ UNCHANGED <<prog, pc, content, max_chunk_size, service, chunks, pbar,
                      final_content, nvars>>

TranslateChunkOk ==
    /\ prog = "translate_md" /\ pc = "loop" /\ idx < Len(pbar)
    /\ \E completion \in Completions(pbar[idx + 1].text) :
          completion.ok /\ LoopBody(completion)

TranslateChunkFails ==
    /\ prog = "translate_md" /\ pc = "loop" /\ idx < Len(pbar)
    /\ \E completion \in Completions(pbar[idx + 1].text) :
          ~completion.ok /\ LoopBody(completion)

\* After the loop: join the parts, write them, return the totals.
WriteOutput ==
    /\ prog = "translate_md" /\ pc = "loop" /\ idx = Len(pbar)
    /\ final_content' = str_join(translated_chunks, <<NL>>)
    /\ pc' = "done"
    /\ UNCHANGED <<prog, content, max_chunk_size, service, chunks, pbar, idx,
                   translated_chunks, total_prompt_tokens, total_completion_tokens,
                   calls, nvars>>

-----------------------------------------------------------------------------
(* llm_client.py: LLMClient.generate_completion *)

\* INPUT_PRICE and OUTPUT_PRICE are RMB per 1000 tokens (0.0008 and 0.002);
\* costs are counted here in units of 0.0000001 RMB, so that a token of
\* input costs 8 units and a token of output 20.
InputPrice == 8

OutputPrice == 20

ZeroStats ==
    [prompt_tokens |-> 0, completion_tokens |-> 0, prompt_cost |-> 0,
     completion_cost |-> 0, total_cost |-> 0]

\* usage_stats as generate_completion builds it from completion.usage
usage_stats(prompt_tokens, completion_tokens) ==
    [prompt_tokens |-> prompt_tokens,
     completion_tokens |-> completion_tokens,
     prompt_cost |-> prompt_tokens * InputPrice,
     completion_cost |-> completion_tokens * OutputPrice,
     total_cost |-> prompt_tokens * InputPrice + completion_tokens * OutputPrice]

\* What the remote call does: it raises, or it answers with a content and
\* token counts. The content is `answer`, or it is empty.
ApiReplies(answer) ==
    {[raises |-> FALSE, content |-> answer, prompt_tokens |-> u.prompt_tokens,
      completion_tokens |-> u.completion_tokens] : u \in UsageCounts}
    \cup {[raises |-> FALSE, content |-> <<>>, prompt_tokens |-> 1, completion_tokens |-> 0]}
    \cup {[raises |-> TRUE, content |-> <<>>, prompt_tokens |-> 0, completion_tokens |-> 0]}

\* generate_completion: (content, usage_stats), or (None, None) when the
\* call raised (none = TRUE; text and usage then stand for None).
generate_completion(reply) ==
    IF reply.raises
    THEN [none |-> TRUE, text |-> <<>>, usage |-> ZeroStats]
    ELSE [none |-> FALSE, text |-> reply.content,
          usage |-> usage_stats(reply.prompt_tokens, reply.completion_tokens)]

\* `text and usage` of a generate_completion result: neither is None and the
\* text is not empty (a usage dict is never empty).
Truthy(r) == ~r.none /\ r.text # <<>>

-----------------------------------------------------------------------------
(* extract_videosub.py: generate_notes *)

\* the 3600 of `total_duration < 3600` and of `total_seconds - current_time > 3600`
WindowSeconds == 3600

\* Times are counted in milliseconds (the subtitle file has three decimals).
MsPerSecond == 1000

ZeroTs == [h |-> 0, m |-> 0, s |-> 0, ms |-> 0]

\* format_timestamp: HH:MM:SS,mmm of a time
format_timestamp(t) ==
    [h |-> t \div (3600 * MsPerSecond),
     m |-> (t % (3600 * MsPerSecond)) \div (60 * MsPerSecond),
     s |-> (t % (60 * MsPerSecond)) \div MsPerSecond,
     ms |-> t % MsPerSecond]

\* int(hours) * 3600 + int(minutes) * 60 + float(seconds.replace(",", "."))
parse_timestamp(ts) == (ts.h * 3600 + ts.m * 60 + ts.s) * MsPerSecond + ts.ms

\* A line of the subtitle file: the index of an entry, its "start --> end"
\* line, its text, or a blank line.
SrtLine(kind, entry, start, end) ==
    [kind |-> kind, entry |-> entry, start |-> start, end |-> end]

\* The lines of the file generate_subtitle writes for whisper segments es:
\* "{i}\n{start} --> {end}\n{text}\n\n" per segment, split on "\n".
SrtLines(es) ==
    [j \in 1..(4 * Len(es) + 1) |->
        LET k == ((j - 1) \div 4) + 1
            r == (j - 1) % 4
        IN IF j = 4 * Len(es) + 1 THEN SrtLine("blank", 0, ZeroTs, ZeroTs)
           ELSE IF r = 0 THEN SrtLine("index", k, ZeroTs, ZeroTs)
           ELSE IF r = 1 THEN SrtLine("time", k, format_timestamp(es[k].start),
                                      format_timestamp(es[k].end))
           ELSE IF r = 2 THEN SrtLine("text", k, ZeroTs, ZeroTs)
           ELSE SrtLine("blank", 0, ZeroTs, ZeroTs)]

\* " --> " in line
has_arrow(line) == line.kind = "time"

\* line.strip() and not line.strip().isdigit(): not blank and not an index.
\* The text of an entry is taken to be neither blank nor a number.
is_text(line) == line.kind \notin {"blank", "index"}

Max(a, b) == IF a >= b THEN a ELSE b

\* One iteration of the loop that finds total_duration (it reads end times).
DurationLine(total_duration, line) ==
    IF has_arrow(line) THEN Max(total_duration, parse_timestamp(line.end))
    ELSE total_duration

RECURSIVE DurationLines(_, _, _, _)
\* The loop over lines lo..hi, halving the range so that long files need no
\* deep recursion; the test on `half` has the first half computed before the
\* second half starts.
DurationLines(lines, lo, hi, d) ==
    IF lo > hi THEN d
    ELSE IF lo = hi THEN DurationLine(d, lines[lo])
    ELSE LET mid == (lo + hi) \div 2
             half == DurationLines(lines, lo, mid, d)
         IN IF half >= 0 THEN DurationLines(lines, mid + 1, hi, half) ELSE half

\* WindowLine that closes a window without moving current_time.
WindowLine_KeepsTime(st, line) ==
    IF has_arrow(line)
    THEN IF parse_timestamp(line.start) - st.current_time > WindowSeconds * MsPerSecond
         THEN [segments |-> IF st.current_segment # <<>>
                            THEN Append(st.segments, st.current_segment)
                            ELSE st.segments,
               current_segment |-> <<>>,
               current_time |-> st.current_time]
         ELSE st
    ELSE IF is_text(line)
         THEN [st EXCEPT !.current_segment = Append(st.current_segment, line)]
         ELSE st

\* One iteration of the slicing loop `for line in content.split("\n")`.
WindowLine(st, line) ==
    IF has_arrow(line)
    THEN LET total_seconds == parse_timestamp(line.start)
         IN IF total_seconds - st.current_time > WindowSeconds * MsPerSecond
            THEN [segments |-> IF st.current_segment # <<>>
                               THEN Append(st.segments, st.current_segment)
                               ELSE st.segments,
                  current_segment |-> <<>>,
                  current_time |-> total_seconds]
            ELSE st
    ELSE IF is_text(line)
         THEN [st EXCEPT !.current_segment = Append(st.current_segment, line)]
         ELSE st

RECURSIVE WindowLines(_, _, _, _)
WindowLines(lines, lo, hi, st) ==
    IF lo > hi THEN st
    ELSE IF lo = hi THEN WindowLine(st, lines[lo])
    ELSE LET mid == (lo + hi) \div 2
             half == WindowLines(lines, lo, mid, st)
         IN IF half.current_time >= 0 THEN WindowLines(lines, mid + 1, hi, half) ELSE half

\* A segment is the list of the lines "\n".join puts together.
Segments(lines) ==
    IF DurationLines(lines, 1, Len(lines), 0) < WindowSeconds * MsPerSecond
    THEN <<SelectSeq(lines, LAMBDA line : is_text(line) /\ ~has_arrow(line))>>
    ELSE LET st == WindowLines(lines, 1, Len(lines),
                               [segments |-> <<>>, current_segment |-> <<>>,
                                current_time |-> 0])
         IN IF st.current_segment # <<>>
            THEN Append(st.segments, st.current_segment)
            ELSE st.segments

\* What the model answers to the polishing prompt of a segment when it
\* answers: a note line for every subtitle line.
Polished(segment) == [k \in 1..Len(segment) |-> [segment[k] EXCEPT !.kind = "note"]]

\* What it answers to the final prompt: a title and the sections' text.
Article(sections) ==
    <<SrtLine("title", 0, ZeroTs, ZeroTs)>> \o Flatten([k \in 1..Len(sections) |-> sections[k].body])

AddStats(total, usage) ==
    [key \in DOMAIN total |-> total[key] + usage[key]]

NoNotes == [kind |-> "pending", text |-> <<>>, stats |-> ZeroStats]

\* no notes file on disk
NoFile == [written |-> FALSE, content |-> NoNotes]

\* generate_notes up to the loop over the segments.
SegmentSubtitle ==
    /\ prog = "extract_videosub" /\ pc = "generate_notes"
    /\ segments' = Segments(subtitle)
    /\ notes_sections' = <<>>
    /\ total_stats' = ZeroStats
    /\ pc' = "polish"
    /\ UNCHANGED <<prog, tvars, subtitle, seg_i, completions, notes, notes_file>>

\* One iteration of `for i, segment in enumerate(segments)`: the except
\* branch is never taken, generate_completion raises nothing.
PolishBody(reply) ==
    LET r == generate_completion(reply)
    IN /\ IF Truthy(r)
          THEN /\ notes_sections' = Append(notes_sections, [part |-> seg_i + 1, body |-> r.text])
               /\ total_stats' = AddStats(total_stats, r.usage)
          ELSE UNCHANGED <<notes_sections, total_stats>>
       /\ completions' = Append(completions, r)
       /\ seg_i' = seg_i + 1
       /\ UNCHANGED <<prog, pc, tvars, subtitle, segments, notes, notes_file>>

PolishWindowOk ==
    /\ prog = "extract_videosub" /\ pc = "polish" /\ seg_i < Len(segments)
    /\ \E reply \in ApiReplies(Polished(segments[seg_i + 1])) :
          ~reply.raises /\ reply.content # <<>> /\ PolishBody(reply)

PolishWindowEmpty ==
    /\ prog = "extract_videosub" /\ pc = "polish" /\ seg_i < Len(segments)
    /\ \E reply \in ApiReplies(Polished(segments[seg_i + 1])) :
          ~reply.raises /\ reply.content = <<>> /\ PolishBody(reply)

PolishWindowFails ==
    /\ prog = "extract_videosub" /\ pc = "polish" /\ seg_i < Len(segments)
    /\ \E reply \in ApiReplies(Polished(segments[seg_i + 1])) :
          reply.raises /\ PolishBody(reply)

\* The final call and the return: the article with the usage summary, or,
\* when the result is not truthy, the end of the function (None).
SynthesizeBody(reply) ==
    LET r == generate_completion(reply)
    IN /\ IF Truthy(r)
          THEN /\ total_stats' = AddStats(total_stats, r.usage)
               /\ notes' = [kind |-> "article", text |-> r.text, stats |-> total_stats']
          ELSE /\ UNCHANGED total_stats
               /\ notes' = [kind |-> "None", text |-> <<>>, stats |-> ZeroStats]
       /\ completions' = Append(completions, r)
       /\ pc' = "returned"
       /\ UNCHANGED <<prog, tvars, subtitle, segments, seg_i, notes_sections, notes_file>>

SynthesizeOk ==
    /\ prog = "extract_videosub" /\ pc = "polish" /\ seg_i = Len(segments)
    /\ \E reply \in ApiReplies(Article(notes_sections)) :
          ~reply.raises /\ reply.content # <<>> /\ SynthesizeBody(reply)

SynthesizeEmpty ==
    /\ prog = "extract_videosub" /\ pc = "polish" /\ seg_i = Len(segments)
    /\ \E reply \in ApiReplies(Article(notes_sections)) :
          ~reply.raises /\ reply.content = <<>> /\ SynthesizeBody(reply)

SynthesizeFails ==
    /\ prog = "extract_videosub" /\ pc = "polish" /\ seg_i = Len(segments)
    /\ \E reply \in ApiReplies(Article(notes_sections)) :
          reply.raises /\ SynthesizeBody(reply)

\* `if notes:` in extract_subtitle: None is falsy; the article joined with
\* "\n---\n" and the usage summary is never empty, nor is a list of sections
\* joined by blank lines unless there is no section.
notes_truthy(returned) ==
    \/ returned.kind = "article"
    \/ returned.kind = "sections" /\ returned.text # <<>>

\* extract_subtitle after generate_notes: the notes file is written when the
\* notes are truthy.
WriteNotesFile ==
    /\ prog = "extract_videosub" /\ pc = "returned"
    /\ notes_file' = IF notes_truthy(notes)
                     THEN [written |-> TRUE, content |-> notes]
                     ELSE notes_file
    /\ pc' = "extract_done"
    /\ UNCHANGED <<prog, tvars, subtitle, segments, seg_i, notes_sections, total_stats,
                   completions, notes>>

-----------------------------------------------------------------------------
(* The runs of the model *)

\* The lines generated documents are made of: blank, text, a heading, and a
\* '#' line that is no heading.
DocLines == {<<>>, <<"a">>, <<"#", " ", "a">>, <<"#", "a">>}

Docs == {str_join(ls, <<NL>>) : ls \in UNION {[1..n -> DocLines] : n \in 1..MaxLines}}

\* "# Title\n\nHello world.\n\n## Sub\n\nMore text."
TitleDoc ==
    <<"#", " ", "T", "i", "t", "l", "e", NL, NL,
      "H", "e", "l", "l", "o", " ", "w", "o", "r", "l", "d", ".", NL, NL,
      "#", "#", " ", "S", "u", "b", NL, NL,
      "M", "o", "r", "e", " ", "t", "e", "x", "t", ".">>

\* max_chunk_size as __init__ sets it
DefaultMaxChunkSize == 8192

TranslateInputs ==
    (Docs \X ((1..MaxSmallChunk) \cup {DefaultMaxChunkSize}))
    \cup {<<TitleDoc, 1000>>}

InitTranslate ==
    /\ prog = "translate_md" /\ pc = "translate_file"
    /\ \E in \in TranslateInputs : content = in[1] /\ max_chunk_size = in[2]
    /\ service \in {"echo", "llm"}
    /\ chunks = <<>> /\ pbar = <<>> /\ idx = 0 /\ translated_chunks = <<>>
    /\ total_prompt_tokens = 0 /\ total_completion_tokens = 0
    /\ calls = <<>> /\ final_content = <<>>
    /\ subtitle = <<>> /\ segments = <<>> /\ seg_i = 0 /\ notes_sections = <<>>
    /\ total_stats = ZeroStats /\ completions = <<>> /\ notes = NoNotes
    /\ notes_file = NoFile

\* The start times of generated entries: around the first window's end and
\* around the end of a second window that starts just after it.
TimeGrid ==
    LET W == WindowSeconds * MsPerSecond
    IN {0, 5 * MsPerSecond, W - 5 * MsPerSecond, W, W + 1, 2 * W + 1, 2 * W + 2}

\* A whisper segment that starts at t and lasts 5 seconds.
Entry(t) == [start |-> t, end |-> t + 5 * MsPerSecond]

Transcripts ==
    {es \in UNION {[1..n -> {Entry(t) : t \in TimeGrid}] : n \in 1..MaxEntries} :
        \A k \in 1..(Len(es) - 1) : es[k].start <= es[k + 1].start}

\* 90 minutes of speech, one entry every 5 seconds
Scenario90 == [k \in 1..((90 * 60) \div 5) |-> Entry((k - 1) * 5 * MsPerSecond)]

InitNotes ==
    /\ prog = "extract_videosub" /\ pc = "generate_notes"
    /\ \E es \in Transcripts \cup {Scenario90} : subtitle = SrtLines(es)
    /\ segments = <<>> /\ seg_i = 0 /\ notes_sections = <<>>
    /\ total_stats = ZeroStats /\ completions = <<>> /\ notes = NoNotes
    /\ notes_file = NoFile
    /\ content = <<>> /\ max_chunk_size = DefaultMaxChunkSize /\ service = "llm"
    /\ chunks = <<>> /\ pbar = <<>> /\ idx = 0 /\ translated_chunks = <<>>
    /\ total_prompt_tokens = 0 /\ total_completion_tokens = 0
    /\ calls = <<>> /\ final_content = <<>>

Init == InitTranslate \/ InitNotes

Next ==
    \/ ReadAndSplit
    \/ TranslateChunkOk
    \/ TranslateChunkFails
    \/ WriteOutput
    \/ SegmentSubtitle
    \/ PolishWindowOk
    \/ PolishWindowEmpty
    \/ PolishWindowFails
    \/ SynthesizeOk
    \/ SynthesizeEmpty
    \/ SynthesizeFails
    \/ WriteNotesFile

Spec == Init /\ [][Next]_vars

-----------------------------------------------------------------------------
(* Properties of split_markdown and _split_large_chunk *)

Split == pc \in {"loop", "done"}

\* split_markdown has just returned
SplitDone == pc = "loop" /\ idx = 0

Texts(cs) == [k \in 1..Len(cs) |-> cs[k].text]

Paragraphs(text) == str_split(text, <<NL, NL>>)

\* The heading chunks of the document that split_markdown hands to
\* _split_large_chunk.
Oversized == {c \in Range(heading_chunks(content)) : Len(c.text) > max_chunk_size}

\* C1: every sub-chunk _split_large_chunk returns for an oversized heading
\* chunk is at most max_chunk_size characters long, unless it consists of
\* exactly one paragraph that alone is longer than max_chunk_size.
C1_SubChunksWithinLimit ==
    SplitDone =>
        \A c \in Oversized :
            \A sub \in Range(_split_large_chunk(c.text, max_chunk_size)) :
                \/ Len(sub) <= max_chunk_size
                \/ Len(Paragraphs(sub)) = 1

\* C2: when no heading chunk is longer than max_chunk_size, the chunk texts
\* of split_markdown(D) joined by one newline, in returned order, are D.
C2_HeadingSplitInvertible ==
    (SplitDone /\ Oversized = {}) => str_join(Texts(chunks), <<NL>>) = content

C2_Witness ==
    /\ SplitDone /\ Oversized = {}
    /\ Len(chunks) >= 2
    /\ \E k \in 1..Len(chunks) : chunks[k].text # <<>> /\ chunks[k].level > 0

\* C6: the paragraphs of the sub-chunks _split_large_chunk returns, taken in
\* order, are the paragraphs of its argument in order, and the sub-chunks
\* joined by a blank line are its argument.
C6_ParagraphsKept ==
    SplitDone =>
        \A text \in {content} \cup {c.text : c \in Range(heading_chunks(content))} :
            LET subs == _split_large_chunk(text, max_chunk_size)
            IN /\ Flatten([k \in 1..Len(subs) |-> Paragraphs(subs[k])]) = Paragraphs(text)
               /\ str_join(subs, <<NL, NL>>) = text

\* An oversized chunk whose first paragraph alone is longer than
\* max_chunk_size and that is cut into several sub-chunks.
C6_Witness ==
    /\ SplitDone
    /\ \E c \in Oversized :
          /\ Len(Paragraphs(c.text)[1]) > max_chunk_size
          /\ Len(_split_large_chunk(c.text, max_chunk_size)) >= 2

\* "# Title\n\nHello world."
TitleChunk == SubSeq(TitleDoc, 1, 21)

\* "## Sub\n\nMore text."
SubChunk == SubSeq(TitleDoc, 24, 41)

\* C7 as stated: the scenario document with max_chunk_size 1000 gives the two
\* chunks "# Title\n\nHello world." and "## Sub\n\nMore text.".
C7_ScenarioAsStated ==
    (SplitDone /\ content = TitleDoc /\ max_chunk_size = 1000)
        => Texts(chunks) = <<TitleChunk, SubChunk>>

\* C7, amended: the scenario document gives exactly two chunks, and the first
\* keeps the blank line in front of the next heading:
\* "# Title\n\nHello world.\n" and "## Sub\n\nMore text.".
C7_ScenarioChunks ==
    (SplitDone /\ content = TitleDoc /\ max_chunk_size = 1000)
        => Texts(chunks) = <<TitleChunk \o <<NL>>, SubChunk>>

C7_Witness == SplitDone /\ content = TitleDoc /\ max_chunk_size = 1000 /\ Len(chunks) = 2

\* C8: the empty document gives no chunk, and translate_file makes no
\* translate call for it.
C8_EmptyDocumentNoChunks ==
    (Split /\ content = <<>>) => (chunks = <<>> /\ calls = <<>>)

-----------------------------------------------------------------------------
(* Properties of translate_file *)

RECURSIVE SumOk(_, _)
\* the sum of a token count over the calls that succeeded
SumOk(cs, prompt) ==
    IF cs = <<>> THEN 0
    ELSE (IF Head(cs).ok
          THEN IF prompt THEN Head(cs).prompt_tokens ELSE Head(cs).completion_tokens
          ELSE 0) + SumOk(Tail(cs), prompt)

\* C3: a chunk whose translate call fails keeps its original text at its
\* position and adds nothing to the totals; the chunks after it are still
\* translated: one part per chunk, totals are the sums over the successful calls.
C3_FailureIsolated ==
    Split =>
        /\ Len(translated_chunks) = idx /\ Len(calls) = idx
        /\ \A k \in 1..idx :
              /\ calls[k].text = pbar[k].text
              /\ ~calls[k].ok => translated_chunks[k] = pbar[k].text
        /\ total_prompt_tokens = SumOk(calls, TRUE)
        /\ total_completion_tokens = SumOk(calls, FALSE)
        /\ pc = "done" => idx = Len(pbar)

\* Three chunks, the second call failed, the first and the third succeeded.
C3_Witness ==
    /\ pc = "done" /\ Len(pbar) = 3
    /\ calls[1].ok /\ ~calls[2].ok /\ calls[3].ok
    /\ total_prompt_tokens = calls[1].prompt_tokens + calls[3].prompt_tokens
    /\ total_prompt_tokens > 0

\* What translate_chunk returns for chunk k of the discovery order, given the
\* outcome of its call.
ExpectedPart(k) ==
    IF calls[k].ok /\ service = "llm" THEN Translation(chunks[k].text)
    ELSE chunks[k].text

\* C4: the chunks are processed and joined in the discovery order of
\* split_markdown: sorting by position changes nothing, positions never
\* decrease along the list, and the final text is the transformed chunks
\* joined by one newline in that order.
C4_DiscoveryOrderKept ==
    Split =>
        /\ pbar = chunks
        /\ \A i, j \in 1..Len(chunks) : i < j => chunks[i].pos <= chunks[j].pos
        /\ \A k \in 1..Len(calls) : calls[k].text = chunks[k].text
        /\ pc = "done" =>
              final_content = str_join([k \in 1..Len(chunks) |-> ExpectedPart(k)], <<NL>>)

\* An oversized chunk cut into several sub-chunks, with a chunk discovered
\* after it, translated to the end.
C4_Witness ==
    /\ pc = "done" /\ service = "llm"
    /\ Len(heading_chunks(content)) >= 2
    /\ Len(heading_chunks(content)[1].text) > max_chunk_size
    /\ Len(_split_large_chunk(heading_chunks(content)[1].text, max_chunk_size)) >= 2

\* C5: with a transform that is the identity and reports no tokens the
\* output is the document and both totals are 0, sub-splitting or not.
C5_IdentityRoundTrip ==
    (pc = "done" /\ service = "echo") =>
        /\ final_content = content
        /\ total_prompt_tokens = 0 /\ total_completion_tokens = 0

-----------------------------------------------------------------------------
(* Properties of generate_notes *)

Sliced == prog = "extract_videosub" /\ pc \in {"polish", "returned", "extract_done"}

Scenario90Lines == SrtLines(Scenario90)

FailedOrAnswered == \A k \in 1..seg_i : completions[k].none \/ completions[k].text # <<>>

\* C10: when the completion call of a window fails, the window's original
\* text is its section, and the sections handed to the final call are as
\* many as the windows.
C10_FailedWindowFallsBack ==
    (Sliced /\ seg_i = Len(segments) /\ FailedOrAnswered) =>
        /\ Len(notes_sections) = Len(segments)
        /\ \A k \in 1..Len(segments) :
              completions[k].none => notes_sections[k].body = segments[k]

RECURSIVE SumUsage(_)
\* the field-wise sum of the usage of the calls that returned usage
SumUsage(rs) ==
    IF rs = <<>> THEN ZeroStats
    ELSE IF Head(rs).none THEN SumUsage(Tail(rs))
    ELSE AddStats(SumUsage(Tail(rs)), Head(rs).usage)

\* generate_notes has printed the totals and returned
Reported ==
    prog = "extract_videosub" /\ pc \in {"returned", "extract_done"} /\ notes.kind = "article"

\* C11: where generate_notes reports the totals, total_stats is the
\* field-wise sum of the usage of every completion call that returned usage:
\* one call per window, then the one synthesis call; a failed call adds
\* nothing.
C11_TotalsAreSumOfUsage ==
    Reported =>
        /\ Len(completions) = Len(segments) + 1
        /\ seg_i = Len(segments)
        /\ total_stats = SumUsage(completions)
        /\ notes.stats = total_stats

Returned == prog = "extract_videosub" /\ pc \in {"returned", "extract_done"}

\* the result of the final synthesis call
SynthesisResult == completions[Len(completions)]

\* the sections joined by blank lines
JoinedSections ==
    str_join([k \in 1..Len(notes_sections) |-> notes_sections[k].body],
             <<SrtLine("blank", 0, ZeroTs, ZeroTs)>>)

\* C12: generate_notes never returns None once it reaches the synthesis
\* step: the article with the usage summary when the synthesis call
\* succeeds, the sections joined by blank lines when it fails; so the notes
\* file is written whenever a window was processed successfully.
C12_NotesAlwaysReturned ==
    (Returned /\ (SynthesisResult.none \/ SynthesisResult.text # <<>>)) =>
        /\ notes.kind # "None"
        /\ ~SynthesisResult.none =>
              notes = [kind |-> "article", text |-> SynthesisResult.text,
                       stats |-> total_stats]
        /\ SynthesisResult.none =>
              notes.kind = "sections" /\ notes.text = JoinedSections
        /\ (pc = "extract_done" /\ notes_sections # <<>>) => notes_file.written

====
